---- MODULE Spec2Model ----
(***************************************************************************)
(* Model of notice_watcher.py: one scheduled run loads state.json, walks   *)
(* the configured boards in order, classifies each board's listed articles *)
(* against the seen identities, writes state.json once and then sends at   *)
(* most one e-mail.                                                         *)
(*                                                                         *)
(* Scaling.  The source's slice lengths 50 < 300 < 500 are modelled by     *)
(* MAX_NEW < SEED_TOP < MAX_SEEN with the same order; the six boards are   *)
(* modelled by two.  An identity (a Python str) is modelled by an integer: *)
(* n >= 0 is the digit string of n, n < 0 is a string that is not all      *)
(* digits (the URL fallback of extract_articles).                           *)
(***************************************************************************)
EXTENDS Integers, Sequences, FiniteSets, TLC

\* identities 1..NumIds can be listed on the board of a one-board site
NumIds == 5
\* identities 1..NumIdsFirst, 1..NumIdsSecond can be listed on the boards of a two-board site
NumIdsFirst == 2
NumIdsSecond == 1
\* at most MaxRuns runs are started when the history is kept
MaxRuns == 3
\* a listing page of arbitrary anchors has at most MaxAnchors of them
MaxAnchors == 3

\* new_posts[:50]
MAX_NEW == 2
\* ids[:300]
SEED_TOP == 3
\* merged[:500]
MAX_SEEN == 4

\* BOARDS, in configured order (names only; the url is the key of listing)
BOARDS == <<"general", "event">>

\* a board name that an earlier version of BOARDS had: state.json can still hold it
RetiredName == "retired"

VARIABLES
    site,           \* the web site: configured board name -> what its listing page can show
    flaky,          \* the web site: whether a request for a detail page can fail
    listing,        \* the web site: board name -> anchors of the listing page, in page order
    file,           \* state.json on disk
    pc,             \* position of the run: "idle", "boards", "notify", "done", "failed"
    i,              \* main: index of the board the for loop is at
    state,          \* main: the dict returned by load_state, mutated per board
    send_backlog,   \* main: SEND_BACKLOG == "true"
    new_by_board,   \* main: board name -> new posts, oldest first
    fetched,        \* board name -> identities whose detail page was requested in this run
    writes,         \* number of save_state calls that wrote state.json in this run
    calls,          \* number of send_email calls in this run
    track,          \* whether the history variables runs, notified, lost and booted are kept
    runs,           \* history: number of runs started
    notified,       \* history: board name -> identities included in an e-mail that was sent
    lost,           \* history: board name -> identities of the new posts of a run whose
                    \* send_email raised
    booted,         \* history: the boards seeded silently by a run that went on to save_state
    seeding,        \* history: the boards this run has seeded silently (lines 276-279)
    seeded,         \* history: the boards the last run seeded, if stable
    stable          \* history: the last run completed and no listing changed since

vars == <<site, flaky, track, runs, listing, file, pc, i, state, send_backlog, new_by_board, fetched,
          writes, calls, notified, lost, booted, seeding, seeded, stable>>

----------------------------------------------------------------------------
\* Python list and dict helpers

Min(a, b) == IF a < b THEN a ELSE b

\* s[:n]
Take(s, n) == SubSeq(s, 1, Min(n, Len(s)))

\* list(reversed(s))
Reverse(s) == [k \in 1..Len(s) |-> s[Len(s) + 1 - k]]

\* set(s)
ToSet(s) == {s[k] : k \in 1..Len(s)}

\* list(dict.fromkeys(s)): first occurrences, in order
RECURSIVE Dedup(_)
Dedup(s) ==
    IF s = <<>> THEN <<>>
    ELSE LET front == Dedup(SubSeq(s, 1, Len(s) - 1))
             x == s[Len(s)]
         IN IF x \in ToSet(front) THEN front ELSE Append(front, x)

\* list(S) for a set S: some enumeration of S, the order is not defined by the language
RECURSIVE Orderings(_)
Orderings(S) ==
    IF S = {} THEN {<<>>}
    ELSE UNION {{<<x>> \o rest : rest \in Orderings(S \ {x})} : x \in S}

EmptyDict == [n \in {} |-> <<>>]

\* d[key] = value
DictSet(d, key, value) ==
    [n \in DOMAIN d \cup {key} |-> IF n = key THEN value ELSE d[n]]

\* d.get(key, [])
DictGet(d, key) == IF key \in DOMAIN d THEN d[key] ELSE <<>>

\* [a["id"] for a in articles]
IdsOf(articles) == [k \in 1..Len(articles) |-> articles[k].id]

----------------------------------------------------------------------------
\* state.json

Absent == [kind |-> "absent"]
Malformed == [kind |-> "malformed"]

\* variant: a key whose list is empty is not written
json_dump_nonempty(d) ==
    LET names == SelectSeq(<<RetiredName>> \o BOARDS, LAMBDA n : n \in DOMAIN d /\ d[n] # <<>>)
    IN [kind |-> "json", members |-> [k \in 1..Len(names) |-> <<names[k], d[names[k]]>>]]

\* json.dump(state, f): the members of the object, one per key of the dict, each
\* with its list as it is; the keys are written in the dict's insertion order (the
\* keys that were loaded, then the boards main added, in the order of BOARDS)
json_dump(d) ==
    LET names == SelectSeq(<<RetiredName>> \o BOARDS, LAMBDA n : n \in DOMAIN d)
    IN [kind |-> "json", members |-> [k \in 1..Len(names) |-> <<names[k], d[names[k]]>>]]

\* json.load(f): a dict with one key per member name; the last member of a name wins
json_load(f) ==
    LET m == f.members
        LastOf(n) == m[CHOOSE k \in 1..Len(m) :
                          /\ m[k][1] = n
                          /\ \A j \in (k + 1)..Len(m) : m[j][1] # n][2]
    IN [n \in {m[k][1] : k \in 1..Len(m)} |-> LastOf(n)]

\* load_state()
load_state(f) == IF f = Absent THEN EmptyDict ELSE json_load(f)

\* save_state(state)
save_state(d) == json_dump(d)

----------------------------------------------------------------------------
\* extract_articles

\* sort_key
sort_key(x) == IF x.id >= 0 THEN x.id ELSE 0

\* items.sort(key=sort_key, reverse=True): a stable sort, keys descending
InsertByKey(sorted, x) ==
    LET n == Cardinality({k \in 1..Len(sorted) : sort_key(sorted[k]) >= sort_key(x)})
    IN SubSeq(sorted, 1, n) \o <<x>> \o SubSeq(sorted, n + 1, Len(sorted))

RECURSIVE SortItems(_)
SortItems(s) ==
    IF s = <<>> THEN <<>>
    ELSE InsertByKey(SortItems(SubSeq(s, 1, Len(s) - 1)), s[Len(s)])

\* variant: the first item of an id is kept
UniqFirst(items) ==
    LET keys == Dedup(IdsOf(items))
        FirstItem(id) == items[CHOOSE k \in 1..Len(items) :
                                  /\ items[k].id = id
                                  /\ \A j \in 1..(k - 1) : items[j].id # id]
    IN [k \in 1..Len(keys) |-> FirstItem(keys[k])]

\* uniq = {it["id"]: it for it in items}; list(uniq.values()):
\* keys in order of first occurrence, each with the last item of that id
Uniq(items) ==
    LET keys == Dedup(IdsOf(items))
        LastItem(id) == items[CHOOSE k \in 1..Len(items) :
                                 /\ items[k].id = id
                                 /\ \A j \in (k + 1)..Len(items) : items[j].id # id]
    IN [k \in 1..Len(keys) |-> LastItem(keys[k])]

\* extract_articles(list_url), given the anchors of the page that have a href and a title
extract_articles(page) == SortItems(Uniq(page))

----------------------------------------------------------------------------
\* the per-board step of main

\* variant: SEND_BACKLOG is not consulted
IsFirstRunAnyMode(name, d, backlog) == name \notin DOMAIN d

\* variant: an empty entry counts as no entry
IsFirstRunOrEmpty(name, d, backlog) == DictGet(d, name) = <<>> /\ ~backlog

\* name not in state and not send_backlog
IsFirstRun(name, d, backlog) == name \notin DOMAIN d /\ ~backlog

\* variant: the seed is not cut
SeedAll(ids) == ids

\* variant: the seed is cut one short
SeedShort(ids) == Take(ids, SEED_TOP - 1)

\* ids[:300]
Seed(ids) == Take(ids, SEED_TOP)

\* variant: the seen set is taken over all boards
SeenSetAllBoards(d, name) == UNION {ToSet(d[m]) : m \in DOMAIN d}

\* seen = set(state.get(name, []))
SeenSet(d, name) == ToSet(DictGet(d, name))

\* variant: the seen set is not consulted
NewPostsAll(articles, seen) == articles

\* [a for a in articles if a["id"] not in seen]
NewPosts(articles, seen) == SelectSeq(articles, LAMBDA a : a.id \notin seen)

\* variant: the last 50 are kept instead of the first
CapNewOldest(new_posts) ==
    SubSeq(new_posts, Len(new_posts) + 1 - Min(MAX_NEW, Len(new_posts)), Len(new_posts))

\* new_posts[:50]
CapNew(new_posts) == Take(new_posts, MAX_NEW)

\* variant: list(seen) + ids
MergedSeenFirst(ids, order) == Dedup(order \o ids)

\* list(dict.fromkeys(ids + list(seen))), list(seen) being order
Merged(ids, order) == Dedup(ids \o order)

\* variant: the merged list is not cut
CappedNever(merged) == merged

\* merged[:500]
Capped(merged) == Take(merged, MAX_SEEN)

\* variant: a detail page is requested for every unseen article
DetailRequestsUncapped(articles, seen) == ToSet(IdsOf(NewPosts(articles, seen)))

\* for p in new_posts: fetch_post_text(p["url"]): the identities whose detail page
\* is requested
DetailRequests(articles, seen) == ToSet(IdsOf(CapNew(NewPosts(articles, seen))))

\* summarize_text(body_text) for a body no longer than max_chars
summarize_text(text) == text

\* variant: a post whose fetch_post_text raised is left out
WithSummariesDropping(new_posts, failed) ==
    LET kept == SelectSeq([k \in 1..Len(new_posts) |-> k], LAMBDA k : k \notin failed)
    IN [j \in 1..Len(kept) |->
           [id |-> new_posts[kept[j]].id, title |-> new_posts[kept[j]].title,
            summary |-> summarize_text("body")]]

\* p["summary"] = ... for p in new_posts; failed: the posts whose fetch_post_text raised
WithSummaries(new_posts, failed) ==
    [k \in 1..Len(new_posts) |->
        [id |-> new_posts[k].id, title |-> new_posts[k].title,
         summary |-> IF k \in failed THEN "" ELSE summarize_text("body")]]

\* variant: only the first board's new posts are counted
TotalNewFirst(nbb) == IF BOARDS[1] \in DOMAIN nbb THEN Len(nbb[BOARDS[1]]) ELSE 0

\* sum(len(v) for v in new_by_board.values())
TotalNew(nbb) ==
    LET RECURSIVE Sum(_)
        Sum(S) == IF S = {} THEN 0
                  ELSE LET n == CHOOSE n \in S : TRUE IN Len(nbb[n]) + Sum(S \ {n})
    IN Sum(DOMAIN nbb)

----------------------------------------------------------------------------
\* the listing pages the site can show

\* the page that lists the set S of identities, lowest first
RECURSIVE AscPage(_)
AscPage(S) ==
    IF S = {} THEN <<>>
    ELSE LET m == CHOOSE m \in S : \A x \in S : m >= x
         IN Append(AscPage(S \ {m}), [id |-> m, title |-> "t"])

\* the sets of new posts whose detail page request can fail in one iteration
DetailFailures(new_posts) == IF flaky THEN SUBSET (1..Len(new_posts)) ELSE {{}}

\* the first board alone is configured, its page lists a range lo..hi of the NumIds
\* identities (the latest posts, none deleted or pinned), or nothing
WindowSite == [n \in {BOARDS[1]} |-> [kind |-> "window", top |-> NumIds]]

\* two boards are configured, with few identities each
TwoBoardSite ==
    [n \in {BOARDS[1], BOARDS[2]} |->
        [kind |-> "subsets", top |-> IF n = BOARDS[1] THEN NumIdsFirst ELSE NumIdsSecond]]

\* an anchor with a href and a title: the identity the regular expression of line 96
\* finds (0, 1: the digit strings) or the full url (-1, -2), and the title
Anchors == [id : {-2, -1, 0, 1}, title : {"t", "u"}]

\* the first board alone is configured, its page has any anchors in any order
RawSite == [n \in {BOARDS[1]} |-> [kind |-> "anchors", top |-> MaxAnchors]]

\* the pages that requests.get(list_url) can return for the board
ListingPages(name) ==
    LET top == site[name].top
    IN CASE site[name].kind = "window" -> {AscPage(lo..hi) : lo \in 1..top, hi \in 0..top}
         [] site[name].kind = "subsets" -> {AscPage(S) : S \in SUBSET (1..top)}
         [] site[name].kind = "anchors" -> UNION {[1..k -> Anchors] : k \in 0..top}

\* for b in BOARDS: the configured boards, in the order of BOARDS
Configured == SelectSeq(BOARDS, LAMBDA n : n \in DOMAIN site)

BoardNames == DOMAIN site

----------------------------------------------------------------------------
NoLocals ==
    /\ i = 1
    /\ state = EmptyDict
    /\ send_backlog = FALSE
    /\ new_by_board = EmptyDict
    /\ fetched = [n \in BoardNames |-> {}]

InitOn(s, fl, t, files) ==
    /\ site = s
    /\ flaky = fl
    /\ track = t
    /\ runs = 0
    /\ listing \in [BoardNames -> UNION {ListingPages(n) : n \in BoardNames}]
    /\ \A n \in BoardNames : listing[n] \in ListingPages(n)
    /\ file \in files
    /\ pc = "idle"
    /\ NoLocals
    /\ writes = 0
    /\ calls = 0
    /\ notified = [n \in BoardNames |-> {}]
    /\ lost = [n \in BoardNames |-> {}]
    /\ booted = {}
    /\ seeding = {}
    /\ seeded = {}
    /\ stable = FALSE

\* state.json before the first run: not there, an empty object, or not JSON
FreshFiles == {Absent, save_state(EmptyDict), Malformed}

\* ... or left by an earlier version whose BOARDS had RetiredName
RetiredFiles == {save_state([n \in {RetiredName} |-> <<1>>])}

Init == InitOn(WindowSite, FALSE, FALSE, FreshFiles)

InitHist == InitOn(WindowSite, FALSE, TRUE, FreshFiles)

InitRun == InitOn(TwoBoardSite, TRUE, FALSE, FreshFiles \cup RetiredFiles)

InitPage == InitOn(RawSite, FALSE, FALSE, FreshFiles)

NoRun == pc \in {"idle", "done", "failed"}

\* the process exits: the locals of main are gone
Exit ==
    /\ i' = 1
    /\ state' = EmptyDict
    /\ send_backlog' = FALSE
    /\ new_by_board' = EmptyDict
    /\ fetched' = [n \in BoardNames |-> {}]

\* the site changes a board's listing page (between two runs: each run reads a
\* page once, so a change during a run is a change before or after it)
Publish ==
    /\ NoRun
    /\ \E n \in BoardNames :
          \E page \in ListingPages(n) :
             /\ page # listing[n]
             /\ listing' = [listing EXCEPT ![n] = page]
    /\ pc' = "idle"
    /\ stable' = FALSE
    /\ seeded' = {}
    /\ UNCHANGED <<site, flaky, track, runs, file, i, state, send_backlog, new_by_board,
                   fetched, writes, calls, notified, lost, booted, seeding>>

\* main, lines 265-268
Load ==
    /\ NoRun
    /\ file # Malformed
    /\ state' = load_state(file)
    /\ send_backlog' \in BOOLEAN
    /\ new_by_board' = EmptyDict
    /\ fetched' = [n \in BoardNames |-> {}]
    /\ i' = 1
    /\ writes' = 0
    /\ calls' = 0
    /\ pc' = "boards"
    /\ track => runs < MaxRuns
    /\ runs' = IF track THEN runs + 1 ELSE runs
    /\ seeding' = {}
    /\ UNCHANGED <<site, flaky, track, listing, file, notified, lost, booted, seeded, stable>>

\* variant: a malformed state.json is replaced by an empty object
LoadFailsRepairing ==
    /\ NoRun
    /\ file = Malformed
    /\ file' = save_state(EmptyDict)
    /\ pc' = "failed"
    /\ Exit
    /\ writes' = 0
    /\ calls' = 0
    /\ stable' = FALSE
    /\ seeding' = {}
    /\ seeded' = {}
    /\ UNCHANGED <<site, flaky, track, runs, listing, notified, lost, booted>>

\* json.load raises on a malformed state.json
LoadFails ==
    /\ NoRun
    /\ file = Malformed
    /\ pc' = "failed"
    /\ Exit
    /\ writes' = 0
    /\ calls' = 0
    /\ stable' = FALSE
    /\ seeding' = {}
    /\ seeded' = {}
    /\ UNCHANGED <<site, flaky, track, runs, listing, file, notified, lost, booted>>

\* variant: the loop body saves the state after every board
LoopWritesEach == file' = save_state(state') /\ writes' = writes + 1

\* the loop body calls neither save_state nor send_email
LoopWrites == UNCHANGED <<file, writes>>

\* one iteration of the for loop, lines 270-300
ProcessBoard ==
    /\ pc = "boards"
    /\ i <= Len(Configured)
    /\ LET name == Configured[i]
           articles == extract_articles(listing[name])
           ids == IdsOf(articles)
       IN IF IsFirstRun(name, state, send_backlog)
          THEN /\ state' = DictSet(state, name, Seed(ids))
               /\ new_by_board' = DictSet(new_by_board, name, <<>>)
               /\ seeding' = seeding \cup {name}
               /\ UNCHANGED fetched
          ELSE LET seen == SeenSet(state, name)
                   new_posts == CapNew(NewPosts(articles, seen))
               IN \E order \in Orderings(seen), failed \in DetailFailures(new_posts) :
                     /\ new_by_board' =
                           DictSet(new_by_board, name,
                                   Reverse(WithSummaries(new_posts, failed)))
                     /\ fetched' = [fetched EXCEPT ![name] = DetailRequests(articles, seen)]
                     /\ state' = DictSet(state, name, Capped(Merged(ids, order)))
                     /\ UNCHANGED seeding
    /\ i' = i + 1
    /\ LoopWrites
    /\ UNCHANGED <<site, flaky, track, runs, listing, pc, send_backlog, calls,
                   notified, lost, booted, seeded, stable>>

\* variant: the state is saved when the loop fails
ListingFailsSaving ==
    /\ pc = "boards"
    /\ pc' = "failed"
    /\ file' = save_state(state)
    /\ Exit
    /\ stable' = FALSE
    /\ seeding' = {}
    /\ seeded' = {}
    /\ UNCHANGED <<site, flaky, track, runs, listing, writes, calls, notified, lost, booted>>

\* extract_articles raises (the request or the parse fails), or the process is killed
\* in the loop: the exception leaves main
ListingFails ==
    /\ pc = "boards"
    /\ pc' = "failed"
    /\ Exit
    /\ stable' = FALSE
    /\ seeding' = {}
    /\ seeded' = {}
    /\ UNCHANGED <<site, flaky, track, runs, listing, file, writes, calls, notified, lost, booted>>

\* variant: the state is not written before the notification
SaveSkipped ==
    /\ pc = "boards"
    /\ i > Len(Configured)
    /\ writes' = writes + 1
    /\ pc' = "notify"
    /\ booted' = IF track THEN booted \cup seeding ELSE booted
    /\ UNCHANGED <<site, flaky, track, runs, listing, file, i, state, send_backlog,
                   new_by_board, fetched, calls, notified, lost, seeding, seeded, stable>>

\* save_state(state), line 302; the write is taken to succeed
Save ==
    /\ pc = "boards"
    /\ i > Len(Configured)
    /\ file' = save_state(state)
    /\ writes' = writes + 1
    /\ pc' = "notify"
    /\ booted' = IF track THEN booted \cup seeding ELSE booted
    /\ UNCHANGED <<site, flaky, track, runs, listing, i, state, send_backlog, new_by_board,
                   fetched, calls, notified, lost, seeding, seeded, stable>>

\* lines 304-307, send_email returns
SendEmail ==
    /\ pc = "notify"
    /\ TotalNew(new_by_board) > 0
    /\ calls' = calls + 1
    /\ notified' = IF track
                   THEN [n \in BoardNames |->
                           notified[n] \cup ToSet(IdsOf(DictGet(new_by_board, n)))]
                   ELSE notified
    /\ pc' = "done"
    /\ Exit
    /\ stable' = TRUE
    /\ seeded' = seeding
    /\ seeding' = {}
    /\ UNCHANGED <<site, flaky, track, runs, listing, file, writes, lost, booted>>

\* lines 304-306, send_email raises (configuration or transport)
SendEmailFails ==
    /\ pc = "notify"
    /\ TotalNew(new_by_board) > 0
    /\ calls' = calls + 1
    /\ pc' = "failed"
    /\ Exit
    /\ stable' = FALSE
    /\ seeding' = {}
    /\ seeded' = {}
    /\ lost' = IF track
               THEN [n \in BoardNames |-> lost[n] \cup ToSet(IdsOf(DictGet(new_by_board, n)))]
               ELSE lost
    /\ UNCHANGED <<site, flaky, track, runs, listing, file, writes, notified, booted>>

\* lines 308-309
NoNewPosts ==
    /\ pc = "notify"
    /\ ~(TotalNew(new_by_board) > 0)
    /\ pc' = "done"
    /\ Exit
    /\ stable' = TRUE
    /\ seeded' = seeding
    /\ seeding' = {}
    /\ UNCHANGED <<site, flaky, track, runs, listing, file, writes, calls, notified, lost, booted>>

Next ==
    \/ Publish
    \/ Load
    \/ LoadFails
    \/ ProcessBoard
    \/ ListingFails
    \/ Save
    \/ SendEmail
    \/ SendEmailFails
    \/ NoNewPosts

\* the runs, on a site that does not change
NextFrozen ==
    \/ Load
    \/ LoadFails
    \/ ProcessBoard
    \/ ListingFails
    \/ Save
    \/ SendEmail
    \/ SendEmailFails
    \/ NoNewPosts

\* one board with many identities
Spec == Init /\ [][Next]_vars

\* the same, keeping the history of sent identities
SpecHist == InitHist /\ [][Next]_vars

\* two boards with few identities
SpecRun == InitRun /\ [][Next]_vars

\* one board whose page has arbitrary anchors, the page staying as it is
SpecPage == InitPage /\ [][NextFrozen]_vars

----------------------------------------------------------------------------
\* What a run in its loop has read and done so far.  While pc = "boards" the
\* file is still the one the run loaded.

\* the dict the run loaded
Loaded == load_state(file)

\* the identities of the board's extraction, in extraction order
Extracted(n) == IdsOf(extract_articles(listing[n]))

\* the loop has finished the board's iteration
Processed(n) == pc = "boards" /\ \E k \in 1..(i - 1) : Configured[k] = n

\* the identities of the board's new-posts output, in output order
Output(n) == IdsOf(new_by_board[n])

\* the extracted identities that are not in the loaded entry, in extraction order
Unseen(n) == SelectSeq(Extracted(n), LAMBDA x : x \notin ToSet(DictGet(Loaded, n)))

\* some board has a new post
AnyNew == \E n \in DOMAIN new_by_board : Len(new_by_board[n]) > 0

----------------------------------------------------------------------------
\* C1: whatever runs have completed, every board's identity list in state.json
\* has at most MAX_SEEN (500) entries.
C1_SeenCapped ==
    file.kind = "json" =>
        \A k \in 1..Len(file.members) : Len(file.members[k][2]) <= MAX_SEEN

\* a run has completed on a listing longer than the cap and the list is full
C1_Witness ==
    /\ pc = "done"
    /\ file.kind = "json"
    /\ \E n \in BoardNames :
          /\ Len(listing[n]) > MAX_SEEN
          /\ n \in DOMAIN Loaded
          /\ Len(Loaded[n]) = MAX_SEEN

\* C2 as claimed: an e-mail that is sent never contains an identity that an
\* earlier sent e-mail contained for the same board.
C2_NoDuplicate ==
    [][pc = "notify" /\ pc' = "done" =>
          \A n \in BoardNames :
              ToSet(IdsOf(DictGet(new_by_board, n))) \cap notified[n] = {}]_vars

\* C2 as amended: an identity that a sent e-mail contained is not in the board's
\* new-posts output of a run that loaded it in the board's seen list.
C2_NoRepeatWhileSeen ==
    \A n \in BoardNames :
        Processed(n) =>
            \A id \in notified[n] \cap ToSet(DictGet(Loaded, n)) : id \notin ToSet(Output(n))

\* a notified identity is still in the seen list and listed again, next to new posts
C2_Witness ==
    \E n \in BoardNames :
        /\ Processed(n)
        /\ notified[n] \cap ToSet(DictGet(Loaded, n)) \cap ToSet(Extracted(n)) # {}
        /\ Output(n) # <<>>

\* C3: a board without an entry in the loaded state, backlog off: no new posts,
\* and the entry becomes the first SEED_TOP (300) extracted identities.
C3_FirstRunSeeds ==
    \A n \in BoardNames :
        Processed(n) /\ n \notin DOMAIN Loaded /\ ~send_backlog =>
            /\ new_by_board[n] = <<>>
            /\ state[n] = SubSeq(Extracted(n), 1, Min(SEED_TOP, Len(Extracted(n))))

\* a board is seeded from a listing longer than SEED_TOP
C3_Witness ==
    \E n \in BoardNames :
        /\ Processed(n)
        /\ n \notin DOMAIN Loaded
        /\ ~send_backlog
        /\ Len(Extracted(n)) > SEED_TOP

\* C4 as claimed: a run that follows a completed run with no listing changed
\* in between reports no new post.
C4_Idempotent == pc = "notify" /\ stable => ~AnyNew

\* C4 as amended: such a run reports no new post for a board whose extraction has
\* at most SEED_TOP (300) identities, or at most MAX_SEEN (500) when the run
\* before did not seed the board.
C4_IdempotentWithinCaps ==
    pc = "notify" /\ stable =>
        \A n \in BoardNames :
            Len(Extracted(n)) <= (IF n \in seeded THEN SEED_TOP ELSE MAX_SEEN) =>
                new_by_board[n] = <<>>

\* the run follows the seeding run of a board that lists exactly SEED_TOP identities
C4_Witness ==
    /\ pc = "notify"
    /\ stable
    /\ \E n \in seeded : Len(Extracted(n)) = SEED_TOP

\* C5: for a board with an entry, the new entry is the extraction followed by
\* the prior entry's other identities in their prior order, cut to MAX_SEEN (500).
C5_MergeKeepsPriorOrder ==
    \A n \in BoardNames :
        Processed(n) /\ n \in DOMAIN Loaded =>
            state[n] = SubSeq(Dedup(Extracted(n) \o Loaded[n]), 1,
                              Min(MAX_SEEN, Len(Dedup(Extracted(n) \o Loaded[n]))))

\* C6: for a board with an entry, the output is the unseen extracted identities,
\* the first MAX_NEW (50) of them, reversed; never more than MAX_NEW, never a seen one.
C6_NewPostsExact ==
    \A n \in BoardNames :
        Processed(n) /\ n \in DOMAIN Loaded =>
            /\ Output(n) = Reverse(SubSeq(Unseen(n), 1, Min(MAX_NEW, Len(Unseen(n)))))
            /\ Len(new_by_board[n]) <= MAX_NEW
            /\ ToSet(Output(n)) \cap ToSet(Loaded[n]) = {}

\* a board with seen identities on its page has more than MAX_NEW unseen ones
C6_Witness ==
    \E n \in BoardNames :
        /\ Processed(n)
        /\ n \in DOMAIN Loaded
        /\ Len(Unseen(n)) > MAX_NEW
        /\ ToSet(Extracted(n)) \cap ToSet(Loaded[n]) # {}
        /\ Len(new_by_board[n]) = MAX_NEW

\* C7 as claimed: with more than MAX_NEW (50) unseen identities exactly MAX_NEW are
\* reported and every extracted identity is in the board's new entry.
C7_AllExtractedSeen ==
    \A n \in BoardNames :
        Processed(n) /\ n \in DOMAIN Loaded /\ Len(Unseen(n)) > MAX_NEW =>
            /\ Len(new_by_board[n]) = MAX_NEW
            /\ ToSet(Extracted(n)) \subseteq ToSet(state[n])

\* C7 as amended: ... and the first MAX_SEEN (500) extracted identities are in the
\* board's new entry.
C7_FirstExtractedSeen ==
    \A n \in BoardNames :
        Processed(n) /\ n \in DOMAIN Loaded /\ Len(Unseen(n)) > MAX_NEW =>
            /\ Len(new_by_board[n]) = MAX_NEW
            /\ \A k \in 1..Min(MAX_SEEN, Len(Extracted(n))) :
                  Extracted(n)[k] \in ToSet(state[n])

\* unseen identities were dropped from the output and are in the new entry
C7_Witness ==
    \E n \in BoardNames :
        /\ Processed(n)
        /\ n \in DOMAIN Loaded
        /\ Len(Unseen(n)) > MAX_NEW
        /\ Len(Extracted(n)) <= MAX_SEEN
        /\ \E x \in ToSet(Unseen(n)) : x \notin ToSet(Output(n)) /\ x \in ToSet(state[n])

\* C8: send_email is called at most once per run, only after the write, and
\* exactly when some board has a new post; with none the run ends in "done"
\* with state.json written.
C8_NotifyRule ==
    [][/\ (pc = "notify" => writes = 1 /\ calls = 0)
       /\ (calls' > calls => pc = "notify" /\ writes = 1 /\ calls' = 1 /\ AnyNew)
       /\ (pc = "notify" /\ pc' # "notify" /\ AnyNew => calls' = 1)
       /\ (pc = "notify" /\ pc' # "notify" /\ ~AnyNew =>
              calls' = 0 /\ pc' = "done" /\ file' = file /\ writes' = 1)]_vars

\* a run has written state.json and then sent its e-mail
C8_Witness == pc = "done" /\ writes = 1 /\ calls = 1 /\ Len(Configured) > 1

\* C9: state.json is written at most once per run, after the iteration of
\* every configured board, and before send_email is called.
C9_SingleWrite ==
    [][/\ writes <= 1
       /\ (file' # file => writes' = writes + 1)
       /\ (writes' > writes =>
              /\ pc = "boards"
              /\ i = Len(Configured) + 1
              /\ DOMAIN new_by_board = BoardNames
              /\ writes = 0
              /\ calls = 0)
       /\ (calls' > calls => writes = 1)]_vars

\* a run over two boards has written state.json
C9_Witness ==
    /\ pc = "notify"
    /\ writes = 1
    /\ Len(Configured) > 1
    /\ file = save_state(state)
    /\ DOMAIN state = BoardNames

\* C10: a run that fails in the loop leaves state.json as it was loaded, calls
\* send_email never, processes no further board, and the next run loads the
\* same state.
C10_FailureKeepsFile ==
    [][/\ (pc = "boards" /\ pc' \in {"boards", "failed"} => file' = file)
       /\ (pc = "boards" /\ pc' = "failed" => writes' = 0 /\ calls' = 0)
       /\ (pc = "failed" => ~ENABLED ProcessBoard)
       /\ (pc = "failed" /\ pc' = "boards" => file' = file /\ state' = load_state(file))]_vars

\* a run has failed in the loop, after an earlier run had written entries
C10_Witness ==
    /\ pc = "failed"
    /\ writes = 0
    /\ calls = 0
    /\ file.kind = "json"
    /\ Len(file.members) > 1

\* C11: a board without an entry in the loaded state, backlog on: the output is
\* the first MAX_NEW (50) extracted articles, reversed, and the entry becomes the
\* extracted identities cut to MAX_SEEN (500).
C11_BacklogMode ==
    \A n \in BoardNames :
        Processed(n) /\ n \notin DOMAIN Loaded /\ send_backlog =>
            /\ Output(n) = Reverse(SubSeq(Extracted(n), 1, Min(MAX_NEW, Len(Extracted(n)))))
            /\ state[n] = SubSeq(Extracted(n), 1, Min(MAX_SEEN, Len(Extracted(n))))

\* a board without an entry is processed with backlog on, its listing longer than
\* both caps
C11_Witness ==
    \E n \in BoardNames :
        /\ Processed(n)
        /\ n \notin DOMAIN Loaded
        /\ send_backlog
        /\ Len(Extracted(n)) > MAX_SEEN
        /\ Len(new_by_board[n]) = MAX_NEW

\* C12 as claimed: when send_email raises, the run fails with state.json as the
\* run wrote it and nothing recorded as sent, and no later run has one of that
\* run's new posts in its new-posts output.
C12_LostNeverReported ==
    /\ [][pc = "notify" /\ pc' = "failed" =>
             /\ calls' = 1
             /\ file' = file
             /\ file = save_state(state)
             /\ notified' = notified]_vars
    /\ [](\A n \in BoardNames : Processed(n) => ToSet(Output(n)) \cap lost[n] = {})

\* C12 as amended: ... state.json holds every one of that run's new posts that is
\* among the first MAX_SEEN (500) extracted identities, and no later run that
\* loads such a post in the board's seen list has it in its new-posts output.
C12_LostWhileSeen ==
    /\ [][pc = "notify" /\ pc' = "failed" =>
             /\ calls' = 1
             /\ file' = file
             /\ file = save_state(state)
             /\ notified' = notified
             /\ \A n \in BoardNames :
                   \A k \in 1..Min(MAX_SEEN, Len(Extracted(n))) :
                       Extracted(n)[k] \in ToSet(Output(n)) =>
                           Extracted(n)[k] \in ToSet(DictGet(load_state(file'), n))]_vars
    /\ [](\A n \in BoardNames :
             Processed(n) =>
                 \A id \in lost[n] \cap ToSet(DictGet(Loaded, n)) : id \notin ToSet(Output(n)))

\* a later run finds a post of the failed notification still listed and in the
\* seen list, and reports other posts
C12_Witness ==
    \E n \in BoardNames :
        /\ Processed(n)
        /\ lost[n] \cap ToSet(DictGet(Loaded, n)) \cap ToSet(Extracted(n)) # {}
        /\ Output(n) # <<>>

C14_LoadingState ==
    /\ [][/\ (NoRun /\ pc' = "boards" /\ file = Absent => state' = EmptyDict)
          /\ (file = Malformed =>
                 /\ file' = file
                 /\ pc' \in {"idle", "failed"}
                 /\ state' = EmptyDict
                 /\ new_by_board' = EmptyDict
                 /\ writes' = 0
                 /\ calls' = 0)]_vars
    /\ [](file = Malformed =>
             ~ENABLED Load /\ ~ENABLED ProcessBoard /\ ~ENABLED Save /\ ~ENABLED SendEmail)
    /\ [](file = Absent =>
             \A n \in BoardNames :
                 Processed(n) =>
                     IF send_backlog
                     THEN Output(n) =
                              Reverse(SubSeq(Extracted(n), 1, Min(MAX_NEW, Len(Extracted(n)))))
                     ELSE /\ n \in seeding
                          /\ new_by_board[n] = <<>>
                          /\ state[n] = SubSeq(Extracted(n), 1, Min(SEED_TOP, Len(Extracted(n)))))

\* a run has failed on a state.json that is not JSON
C14_Witness ==
    /\ pc = "failed"
    /\ file = Malformed
    /\ state = EmptyDict
    /\ writes = 0
    /\ calls = 0

\* C15: a board is seeded silently only by a run that loaded no entry for it, never
\* again once a run that seeded it has written state.json; entries never leave
\* state.json; and a later run classifies the board against its entry, also
\* when the entry is the empty list.
C15_BootstrapOnce ==
    /\ [](pc = "boards" => seeding \cap booted = {})
    /\ [](\A n \in BoardNames :
             Processed(n) =>
                 /\ n \in seeding => n \notin DOMAIN Loaded /\ ~send_backlog
                 /\ n \in booted =>
                       /\ n \in DOMAIN Loaded
                       /\ Output(n) =
                              Reverse(SubSeq(Unseen(n), 1, Min(MAX_NEW, Len(Unseen(n))))))
    /\ [][file.kind = "json" =>
             DOMAIN load_state(file) \subseteq DOMAIN load_state(file')]_vars

\* a board that was seeded from an empty listing is processed with backlog off:
\* its entry is the empty list and its listed posts are reported
C15_Witness ==
    \E n \in BoardNames :
        /\ Processed(n)
        /\ n \in booted
        /\ ~send_backlog
        /\ Loaded[n] = <<>>
        /\ Output(n) # <<>>

\* C16: load_state of what save_state writes for the dict of main is that dict:
\* the same board names, each with the same identities in the same order; so is
\* what a run has written when it reaches the notification.
C16_RoundTrip ==
    /\ load_state(save_state(state)) = state
    /\ pc = "notify" =>
          /\ DOMAIN load_state(file) = DOMAIN state
          /\ \A n \in DOMAIN state : load_state(file)[n] = state[n]

\* a run has written a dict with a retired name, a list of two identities and
\* an empty list
C16_Witness ==
    /\ pc = "notify"
    /\ RetiredName \in DOMAIN state
    /\ \E n \in DOMAIN state : Len(state[n]) >= 2 /\ state[n][1] # state[n][2]
    /\ \E n \in DOMAIN state : state[n] = <<>>

\* C17: the detail pages requested for a board are pages of articles in the
\* board's new-posts output, at most MAX_NEW (50) of them, none for a board the
\* run seeds, none for an identity of the loaded entry.
C17_DetailRequestsOnlyForNew ==
    \A n \in BoardNames :
        /\ fetched[n] \subseteq ToSet(IdsOf(DictGet(new_by_board, n)))
        /\ Cardinality(fetched[n]) <= MAX_NEW
        /\ n \in seeding => fetched[n] = {}
        /\ Processed(n) => fetched[n] \cap ToSet(DictGet(Loaded, n)) = {}

\* a board with seen identities on its page has more than MAX_NEW unseen ones and
\* MAX_NEW detail pages were requested
C17_Witness ==
    \E n \in BoardNames :
        /\ Processed(n)
        /\ Len(Unseen(n)) > MAX_NEW
        /\ ToSet(Extracted(n)) \cap ToSet(DictGet(Loaded, n)) # {}
        /\ Cardinality(fetched[n]) = MAX_NEW

\* C18: the articles extracted from a page have pairwise distinct identities, one
\* for every identity on the page; the record kept for an identity is its last
\* anchor on the page; numeric identities are in descending order of their value;
\* no non-numeric identity comes before a positive numeric one; and non-numeric
\* identities are in the order in which they first occur on the page.
C18_ExtractionOrder ==
    \A n \in BoardNames :
        LET page == listing[n]
            r == extract_articles(page)
            First(id) == CHOOSE k \in 1..Len(page) :
                            page[k].id = id /\ \A j \in 1..(k - 1) : page[j].id # id
            Last(id) == CHOOSE k \in 1..Len(page) :
                           page[k].id = id /\ \A j \in (k + 1)..Len(page) : page[j].id # id
        IN /\ \A j, k \in 1..Len(r) : j # k => r[j].id # r[k].id
           /\ {r[k].id : k \in 1..Len(r)} = {page[k].id : k \in 1..Len(page)}
           /\ \A k \in 1..Len(r) : r[k] = page[Last(r[k].id)]
           /\ \A j, k \in 1..Len(r) :
                 j < k =>
                     /\ r[j].id >= 0 /\ r[k].id >= 0 => r[j].id > r[k].id
                     /\ ~(r[j].id < 0 /\ r[k].id > 0)
                     /\ r[j].id < 0 /\ r[k].id < 0 => First(r[j].id) < First(r[k].id)
           /\ Processed(n) /\ IsFirstRun(n, Loaded, send_backlog) =>
                 state[n] = SubSeq(IdsOf(r), 1, Min(SEED_TOP, Len(r)))

\* a board is processed whose page shows a non-numeric identity twice, with two
\* titles, a numeric identity between the two
C18_Witness ==
    \E n \in BoardNames :
        /\ Processed(n)
        /\ Len(listing[n]) = 3
        /\ listing[n][1].id < 0
        /\ listing[n][3].id = listing[n][1].id
        /\ listing[n][3].title # listing[n][1].title
        /\ listing[n][2].id > 0
        /\ extract_articles(listing[n]) = <<listing[n][2], listing[n][3]>>

\* C19: an iteration of the loop adds or replaces the entry and the output of
\* its own board and leaves every other entry and output as it is; the board's
\* output and new entry are computed from its own loaded entry and its own page;
\* and save_state writes back the entries of names that are not configured.
C19_BoardIsolation ==
    /\ [][pc = "boards" /\ i' = i + 1 =>
             /\ DOMAIN state' = DOMAIN state \cup {Configured[i]}
             /\ \A m \in DOMAIN state : m # Configured[i] => state'[m] = state[m]
             /\ DOMAIN new_by_board' = DOMAIN new_by_board \cup {Configured[i]}
             /\ \A m \in DOMAIN new_by_board :
                   m # Configured[i] => new_by_board'[m] = new_by_board[m]
             /\ file' = file]_vars
    /\ [][pc = "boards" /\ pc' = "notify" =>
             \A m \in DOMAIN load_state(file) \ BoardNames :
                 /\ m \in DOMAIN load_state(file')
                 /\ load_state(file')[m] = load_state(file)[m]]_vars
    /\ [](\A n \in BoardNames :
             Processed(n) /\ ~IsFirstRun(n, Loaded, send_backlog) =>
                 /\ Output(n) = Reverse(SubSeq(Unseen(n), 1, Min(MAX_NEW, Len(Unseen(n)))))
                 /\ \E order \in Orderings(ToSet(DictGet(Loaded, n))) :
                       LET merged == Dedup(Extracted(n) \o order)
                       IN state[n] = SubSeq(merged, 1, Min(MAX_SEEN, Len(merged))))

\* the second board reports an identity that is in the loaded entries of the
\* first board and of a name that is not configured
C19_Witness ==
    /\ Len(Configured) > 1
    /\ Processed(BOARDS[2])
    /\ RetiredName \in DOMAIN Loaded
    /\ BOARDS[1] \in DOMAIN Loaded
    /\ \E x \in ToSet(Output(BOARDS[2])) :
          x \in ToSet(Loaded[BOARDS[1]]) \cap ToSet(Loaded[RetiredName])

====
